---------------------------- MODULE Spec2Model ----------------------------
(***************************************************************************)
(* A model of backends/iommufd.c: the IOMMUFDBackend object (fd, users,    *)
(* owned, lock), its connect / disconnect / set_fd / finalize operations   *)
(* run by concurrent threads, and the ioctl wrappers layered on be->fd.    *)
(*                                                                         *)
(* Each C function that takes be->lock is split at its lock, test, system  *)
(* call, update and unlock, so that every interleaving the mutex allows    *)
(* (and, were the mutex missing, every interleaving it forbids) is a       *)
(* behaviour of the model.  The kernel is the environment: open() and      *)
(* ioctl() succeed or fail as the environment chooses.                     *)
(***************************************************************************)
EXTENDS Integers, FiniteSets, Sequences, TLC

(***************************************************************************)
(* Bounds of the model.                                                    *)
(***************************************************************************)
\* Number of threads; the N of "N concurrent connects" is at most this.
NThreads == 3
\* Number of threads that call in any order they like.
NCallers == 2
\* Width of an address, a length and a pointer in the model; the code's
\* hwaddr, ram_addr_t and void * have 64 bits.
WordBits == 4
\* Width of be->users in the model; the code's uint32_t has 32 bits.
UsersBits == 2
\* Highest descriptor number of the process' descriptor table.
MaxFd == 5
\* The counts of opens and closes are exact below MaxCount, which stands for
\* "MaxCount or more".
MaxCount == 2

Threads == 1 .. NThreads
Callers == 1 .. NCallers
NoThread == 0

\* The largest value of be->users, which the code calls UINT32_MAX.
UINT32_MAX == 2 ^ UsersBits - 1

\* errno.h
E2BIG == 7

\* Descriptor numbers open() may return (0, 1, 2 are the standard streams).
Fds == 3 .. MaxFd
\* Descriptors that an external supplier opened and passes by reference.
ExtFds == {3}
\* errno values with which opening /dev/iommu fails (ENOENT, EACCES).
OpenErrnos == {2, 13}

VARIABLES
    fd,      \* be->fd
    users,   \* be->users
    owned,   \* be->owned
    lock,    \* be->lock: the thread that holds it, or NoThread
    alive,   \* FALSE once the object has been finalized
    fdtab,   \* the process' descriptor table: "free", "core" or "ext"
    opens,   \* how often this code has opened /dev/iommu
    closes,  \* how often this code has closed a descriptor
    th       \* per thread: position in the current call, C locals, history

vars == <<fd, users, owned, lock, alive, fdtab, opens, closes, th>>

\* The value of a request, result or argument list that does not exist.
Nil == [nil |-> TRUE]

\* A thread that is in no call and has made none.
IdleThread ==
    [pc |-> "idle", op |-> "none", conn |-> FALSE, fd |-> -1, ret |-> 0,
     err |-> "", errno |-> 0, pre |-> <<-1, 0, TRUE>>, opened |-> FALSE,
     closed |-> FALSE, args |-> Nil, req |-> Nil, k |-> Nil, out |-> 0]

\* The (fd, users, owned) triple that be->lock protects.
Fields == <<fd, users, owned>>

TypeOK ==
    /\ fd \in Fds \cup {-1}
    /\ users \in 0 .. UINT32_MAX
    /\ owned \in BOOLEAN
    /\ lock \in Threads \cup {NoThread}
    /\ alive \in BOOLEAN
    /\ fdtab \in [Fds -> {"free", "core", "ext"}]
    /\ opens \in 0 .. MaxCount
    /\ closes \in 0 .. MaxCount
    /\ DOMAIN th = Threads
    /\ \A t \in Threads : th[t].pc \in
          {"idle", "c_check", "c_open", "c_inc", "c_out", "d_check", "d_close",
           "d_out", "s_lock", "s_set", "s_out", "ioctl"}

(***************************************************************************)
(* iommufd_backend_init                                                    *)
(***************************************************************************)
iommufd_backend_init ==
    /\ fd = -1
    /\ users = 0
    /\ owned = TRUE
    /\ lock = NoThread

Init ==
    /\ iommufd_backend_init
    /\ alive = TRUE
    /\ fdtab = [f \in Fds |-> IF f \in ExtFds THEN "ext" ELSE "free"]
    /\ opens = 0
    /\ closes = 0
    /\ th = [t \in Threads |-> IdleThread]

(***************************************************************************)
(* The mutex and the system calls.                                         *)
(***************************************************************************)
\* Mutant: a lock that excludes nobody.
qemu_mutex_lock_NoExclusion(t) ==
    lock' = t

qemu_mutex_lock(t) ==
    /\ lock = NoThread
    /\ lock' = t

qemu_mutex_unlock(t) ==
    lock' = NoThread

\* open(2) returns the lowest descriptor number that is not open.
LowestFree ==
    CHOOSE f \in Fds : fdtab[f] = "free" /\ \A g \in Fds : g < f => fdtab[g] # "free"

\* close(2) on a descriptor of the table frees it; on -1 it fails with EBADF.
CloseFd(f) ==
    IF f \in Fds THEN [fdtab EXCEPT ![f] = "free"] ELSE fdtab

\* A count one higher, exact below MaxCount.
Counted(n) ==
    IF n < MaxCount THEN n + 1 ELSE MaxCount

\* The count of closes after close(f).
Closed(f) ==
    IF f \in Fds THEN Counted(closes) ELSE closes

\* What a call of t starts from: its locals as declared, nothing done yet.
NewCall(t, name) ==
    [IdleThread EXCEPT !.op = name, !.conn = th[t].conn]

\* What is left of a call when it returns: its name, what it returned or
\* reported, and what it handed to and got from the kernel.
Returned(r) ==
    [r EXCEPT !.pc = "idle", !.fd = -1, !.errno = 0, !.pre = IdleThread.pre,
              !.opened = FALSE, !.closed = FALSE]

\* The thread record of t with the given fields changed.
Set(t, r) == [th EXCEPT ![t] = r]

(***************************************************************************)
(* iommufd_backend_connect                                                 *)
(***************************************************************************)
\* Mutant: the saturation test written with > , which a uint32_t never meets.
ConnectSaturated_Greater ==
    users > UINT32_MAX

\* if (be->users == UINT32_MAX)
ConnectSaturated ==
    users = UINT32_MAX

\* Mutant: the open attempted whatever the count is.
ConnectMustOpen_AnyCount ==
    owned

\* if (be->owned && !be->users)
ConnectMustOpen ==
    owned /\ users = 0

\* be->users++ on a uint32_t
UsersInc ==
    (users + 1) % (2 ^ UsersBits)

connect_lock(t) ==
    /\ alive
    /\ th[t].pc = "idle"
    /\ qemu_mutex_lock(t)
    /\ th' = Set(t, [NewCall(t, "connect") EXCEPT !.pc = "c_check", !.pre = Fields])
    /\ UNCHANGED <<fd, users, owned, alive, fdtab, opens, closes>>

connect_check(t) ==
    /\ th[t].pc = "c_check"
    /\ IF ConnectSaturated
         THEN th' = Set(t, [th[t] EXCEPT !.pc = "c_out", !.ret = -E2BIG,
                                         !.err = "too many connections"])
         ELSE IF ConnectMustOpen
                THEN th' = Set(t, [th[t] EXCEPT !.pc = "c_open"])
                ELSE th' = Set(t, [th[t] EXCEPT !.pc = "c_inc"])
    /\ UNCHANGED <<fd, users, owned, lock, alive, fdtab, opens, closes>>

\* fd = qemu_open_old("/dev/iommu", O_RDWR) succeeds: be->fd = fd
connect_open_ok(t) ==
    /\ th[t].pc = "c_open"
    /\ \E f \in Fds : fdtab[f] = "free"
    /\ LET f == LowestFree IN
         /\ fdtab' = [fdtab EXCEPT ![f] = "core"]
         /\ fd' = f
         /\ th' = Set(t, [th[t] EXCEPT !.pc = "c_inc", !.fd = f, !.opened = TRUE])
    /\ opens' = Counted(opens)
    /\ UNCHANGED <<users, owned, lock, alive, closes>>

\* Mutant: the failed open without its goto out, falling through to users++.
connect_open_fail_NoGoto(t) ==
    /\ th[t].pc = "c_open"
    /\ \E e \in OpenErrnos :
         th' = Set(t, [th[t] EXCEPT !.pc = "c_inc", !.fd = -1, !.ret = -1,
                                    !.errno = e,
                                    !.err = "/dev/iommu opening failed"])
    /\ UNCHANGED <<fd, users, owned, lock, alive, fdtab, opens, closes>>

\* fd = qemu_open_old(...) < 0: error_setg_errno, ret = fd, goto out
connect_open_fail(t) ==
    /\ th[t].pc = "c_open"
    /\ \E e \in OpenErrnos :
         th' = Set(t, [th[t] EXCEPT !.pc = "c_out", !.fd = -1, !.ret = -1,
                                    !.errno = e,
                                    !.err = "/dev/iommu opening failed"])
    /\ UNCHANGED <<fd, users, owned, lock, alive, fdtab, opens, closes>>

connect_inc(t) ==
    /\ th[t].pc = "c_inc"
    /\ users' = UsersInc
    /\ th' = Set(t, [th[t] EXCEPT !.pc = "c_out"])
    /\ UNCHANGED <<fd, owned, lock, alive, fdtab, opens, closes>>

connect_unlock(t) ==
    /\ th[t].pc = "c_out"
    /\ qemu_mutex_unlock(t)
    /\ th' = Set(t, [Returned(th[t]) EXCEPT !.conn = (th[t].ret = 0) \/ th[t].conn])
    /\ UNCHANGED <<fd, users, owned, alive, fdtab, opens, closes>>

iommufd_backend_connect(t) ==
    \/ connect_lock(t)
    \/ connect_check(t)
    \/ connect_open_ok(t)
    \/ connect_open_fail(t)
    \/ connect_inc(t)
    \/ connect_unlock(t)

(***************************************************************************)
(* iommufd_backend_disconnect                                              *)
(***************************************************************************)
\* Mutant: disconnect without its test for users = 0.
DisconnectIdle_Never ==
    FALSE

\* if (!be->users) goto out
DisconnectIdle ==
    users = 0

\* be->users-- on a uint32_t
UsersDec ==
    (users - 1) % (2 ^ UsersBits)

\* Mutant: the close of disconnect without the test of be->owned.
DisconnectMustClose_IgnoreOwned(u) ==
    u = 0

\* Mutant: the close of disconnect without the test of be->users.
DisconnectMustClose_AnyCount(u) ==
    owned

\* if (!be->users && be->owned), read after be->users--
DisconnectMustClose(u) ==
    u = 0 /\ owned

disconnect_lock(t) ==
    /\ alive
    /\ th[t].pc = "idle"
    /\ qemu_mutex_lock(t)
    /\ th' = Set(t, [NewCall(t, "disconnect") EXCEPT !.pc = "d_check", !.pre = Fields,
                                              !.conn = FALSE])
    /\ UNCHANGED <<fd, users, owned, alive, fdtab, opens, closes>>

disconnect_check(t) ==
    /\ th[t].pc = "d_check"
    /\ IF DisconnectIdle
         THEN /\ th' = Set(t, [th[t] EXCEPT !.pc = "d_out"])
              /\ UNCHANGED users
         ELSE /\ users' = UsersDec
              /\ IF DisconnectMustClose(users')
                   THEN th' = Set(t, [th[t] EXCEPT !.pc = "d_close"])
                   ELSE th' = Set(t, [th[t] EXCEPT !.pc = "d_out"])
    /\ UNCHANGED <<fd, owned, lock, alive, fdtab, opens, closes>>

\* close(be->fd); be->fd = -1
disconnect_close(t) ==
    /\ th[t].pc = "d_close"
    /\ fdtab' = CloseFd(fd)
    /\ fd' = -1
    /\ closes' = Closed(fd)
    /\ th' = Set(t, [th[t] EXCEPT !.pc = "d_out", !.fd = fd, !.closed = TRUE])
    /\ UNCHANGED <<users, owned, lock, alive, opens>>

disconnect_unlock(t) ==
    /\ th[t].pc = "d_out"
    /\ qemu_mutex_unlock(t)
    /\ th' = Set(t, Returned(th[t]))
    /\ UNCHANGED <<fd, users, owned, alive, fdtab, opens, closes>>

iommufd_backend_disconnect(t) ==
    \/ disconnect_lock(t)
    \/ disconnect_check(t)
    \/ disconnect_close(t)
    \/ disconnect_unlock(t)

(***************************************************************************)
(* iommufd_backend_set_fd                                                  *)
(***************************************************************************)
\* What monitor_fd_param may return: a descriptor the supplier owns, or -1.
monitor_fd_param ==
    ExtFds \cup {-1}

\* Mutant: the return after error_prepend() is missing.
set_fd_resolve_NoReturn(t) ==
    /\ alive
    /\ th[t].pc = "idle"
    /\ \E r \in monitor_fd_param :
         th' = Set(t, [NewCall(t, "set_fd") EXCEPT
                          !.pc = "s_lock", !.fd = r,
                          !.err = IF r = -1
                                    THEN "Could not parse remote object fd"
                                    ELSE ""])
    /\ UNCHANGED <<fd, users, owned, lock, alive, fdtab, opens, closes>>

\* fd = monitor_fd_param(...); if (fd == -1) { error_prepend(...); return; }
set_fd_resolve(t) ==
    /\ alive
    /\ th[t].pc = "idle"
    /\ \E r \in monitor_fd_param :
         IF r = -1
           THEN th' = Set(t, [NewCall(t, "set_fd") EXCEPT
                                 !.err = "Could not parse remote object fd"])
           ELSE th' = Set(t, [NewCall(t, "set_fd") EXCEPT !.pc = "s_lock", !.fd = r])
    /\ UNCHANGED <<fd, users, owned, lock, alive, fdtab, opens, closes>>

set_fd_lock(t) ==
    /\ th[t].pc = "s_lock"
    /\ qemu_mutex_lock(t)
    /\ th' = Set(t, [th[t] EXCEPT !.pc = "s_set", !.pre = Fields])
    /\ UNCHANGED <<fd, users, owned, alive, fdtab, opens, closes>>

\* be->fd = fd; be->owned = false
set_fd_assign(t) ==
    /\ th[t].pc = "s_set"
    /\ fd' = th[t].fd
    /\ owned' = FALSE
    /\ th' = Set(t, [th[t] EXCEPT !.pc = "s_out"])
    /\ UNCHANGED <<users, lock, alive, fdtab, opens, closes>>

set_fd_unlock(t) ==
    /\ th[t].pc = "s_out"
    /\ qemu_mutex_unlock(t)
    /\ th' = Set(t, Returned(th[t]))
    /\ UNCHANGED <<fd, users, owned, alive, fdtab, opens, closes>>

iommufd_backend_set_fd(t) ==
    \/ set_fd_resolve(t)
    \/ set_fd_lock(t)
    \/ set_fd_assign(t)
    \/ set_fd_unlock(t)

(***************************************************************************)
(* iommufd_backend_finalize: the object is destroyed when no call into it  *)
(* is in progress; nothing is called on it afterwards.                     *)
(***************************************************************************)
\* if (be->owned)
FinalizeMustClose ==
    owned

iommufd_backend_finalize ==
    /\ alive
    /\ \A t \in Threads : th[t].pc = "idle"
    /\ alive' = FALSE
    /\ IF FinalizeMustClose
         THEN /\ fdtab' = CloseFd(fd)
              /\ closes' = Closed(fd)
              /\ fd' = -1
         ELSE UNCHANGED <<fd, fdtab, closes>>
    /\ UNCHANGED <<users, owned, lock, opens, th>>

(***************************************************************************)
(* The ioctl wrappers.  A wrapper builds its request, reads be->fd without *)
(* the lock and issues the ioctl, which blocks until the kernel answers.   *)
(***************************************************************************)
\* linux/iommufd.h: enum iommufd_ioas_map_flags
IOMMU_IOAS_MAP_FIXED_IOVA == 1
IOMMU_IOAS_MAP_WRITEABLE == 2
IOMMU_IOAS_MAP_READABLE == 4

RECURSIVE BitOr(_, _)
\* a | b
BitOr(a, b) ==
    IF a = 0 THEN b
    ELSE IF b = 0 THEN a
    ELSE (IF a % 2 = 1 \/ b % 2 = 1 THEN 1 ELSE 0) + 2 * BitOr(a \div 2, b \div 2)

\* Whether the single bit `bit` is set in flags.
HasFlag(flags, bit) ==
    (flags \div bit) % 2 = 1

\* (int64_t)vaddr: the pointer's bits read as a two's complement number.
ToInt64(p) ==
    IF p >= 2 ^ (WordBits - 1) THEN p - 2 ^ WordBits ELSE p

\* The conversion of a signed value to the __u64 field that is assigned it.
ToU64(x) ==
    x % (2 ^ WordBits)

\* errno values with which the kernel rejects a request (ENOMEM, EINVAL).
IoctlErrnos == {12, 22}
\* Ids the kernel hands out.
NewIds == {1, 2}

\* What ioctl(f, ...) may answer: ret, errno as it is afterwards, and the
\* value the kernel stores in the request's output field when it succeeds.
\* A descriptor that is not open is refused with EBADF; a success leaves
\* errno at whatever it was.
Ioctl(f) ==
    IF f \notin Fds \/ fdtab[f] = "free"
      THEN {[ret |-> -1, errno |-> 9, out |-> 0]}
      ELSE [ret : {0}, errno : {0} \cup IoctlErrnos, out : NewIds]
             \cup [ret : {-1}, errno : IoctlErrnos, out : {0}]

\* errno after the trace_*() call and, when ret is not 0, error_report().
Diagnostics(e) ==
    e

\* Mutant: the ioctl's own return value handed back as it is.
RetOrErrno_Raw(ret, e) ==
    ret

\* return !ret ? 0 : -errno
RetOrErrno(ret, e) ==
    IF ret = 0 THEN 0 ELSE -e

\* A thread's call of the wrapper `name` with arguments a, blocked in the
\* ioctl on descriptor f with request r.
InIoctl(t, name, a, f, r) ==
    [NewCall(t, name) EXCEPT !.pc = "ioctl", !.args = a, !.fd = f, !.req = r]

\* Mutant: the readonly test the wrong way round.
MapFlags_Inverted(readonly) ==
    LET flags == BitOr(IOMMU_IOAS_MAP_READABLE, IOMMU_IOAS_MAP_FIXED_IOVA)
    IN  IF readonly THEN BitOr(flags, IOMMU_IOAS_MAP_WRITEABLE) ELSE flags

\* .flags of map_dma and copy_dma: READABLE | FIXED_IOVA, and
\* if (!readonly) flags |= WRITEABLE
MapFlags(readonly) ==
    LET flags == BitOr(IOMMU_IOAS_MAP_READABLE, IOMMU_IOAS_MAP_FIXED_IOVA)
    IN  IF ~readonly THEN BitOr(flags, IOMMU_IOAS_MAP_WRITEABLE) ELSE flags

(***************************************************************************)
(* iommufd_backend_alloc_ioas, iommufd_backend_get_ioas                    *)
(***************************************************************************)
\* struct iommu_ioas_alloc alloc_data = { .size, .flags = 0 }
AllocRequest ==
    [size |-> "iommu_ioas_alloc", flags |-> 0, out_ioas_id |-> 0]

\* alloc_data after the ioctl: the kernel fills out_ioas_id when it succeeds.
AllocAnswered(r, k) ==
    IF k.ret = 0 THEN [r EXCEPT !.out_ioas_id = k.out] ELSE r

\* a.ioas_id is what the caller's *ioas_id holds before the call.
get_ioas_ioctl(t, a) ==
    /\ alive
    /\ th[t].pc = "idle"
    /\ th' = Set(t, [InIoctl(t, "get_ioas", a, fd, AllocRequest)
                       EXCEPT !.out = a.ioas_id])
    /\ UNCHANGED <<fd, users, owned, lock, alive, fdtab, opens, closes>>

\* *ioas = alloc_data.out_ioas_id; return ret
get_ioas_return(t) ==
    /\ th[t].pc = "ioctl"
    /\ th[t].op = "get_ioas"
    /\ \E k \in Ioctl(th[t].fd) :
         th' = Set(t, Returned([th[t] EXCEPT
                   !.k = k,
                   !.req = AllocAnswered(th[t].req, k),
                   !.out = AllocAnswered(th[t].req, k).out_ioas_id,
                   !.ret = k.ret]))
    /\ UNCHANGED <<fd, users, owned, lock, alive, fdtab, opens, closes>>

(***************************************************************************)
(* iommufd_backend_unmap_dma                                               *)
(***************************************************************************)
UnmapRequest(a) ==
    [size |-> "iommu_ioas_unmap", ioas_id |-> a.ioas, iova |-> a.iova,
     length |-> a.size]

unmap_dma_ioctl(t, a) ==
    /\ alive
    /\ th[t].pc = "idle"
    /\ th' = Set(t, InIoctl(t, "unmap_dma", a, fd, UnmapRequest(a)))
    /\ UNCHANGED <<fd, users, owned, lock, alive, fdtab, opens, closes>>

unmap_dma_return(t) ==
    /\ th[t].pc = "ioctl"
    /\ th[t].op = "unmap_dma"
    /\ \E k \in Ioctl(th[t].fd) :
         th' = Set(t, Returned([th[t] EXCEPT
                   !.k = k, !.ret = RetOrErrno(k.ret, Diagnostics(k.errno))]))
    /\ UNCHANGED <<fd, users, owned, lock, alive, fdtab, opens, closes>>

(***************************************************************************)
(* iommufd_backend_map_dma                                                 *)
(***************************************************************************)
MapRequest(a) ==
    [size |-> "iommu_ioas_map", flags |-> MapFlags(a.readonly),
     ioas_id |-> a.ioas, reserved |-> 0, user_va |-> ToU64(ToInt64(a.vaddr)),
     iova |-> a.iova, length |-> a.size]

\* Mutant: a map that takes be->lock before its ioctl.
map_dma_ioctl_Locked(t, a) ==
    /\ alive
    /\ th[t].pc = "idle"
    /\ qemu_mutex_lock(t)
    /\ th' = Set(t, InIoctl(t, "map_dma", a, fd, MapRequest(a)))
    /\ UNCHANGED <<fd, users, owned, alive, fdtab, opens, closes>>

map_dma_ioctl(t, a) ==
    /\ alive
    /\ th[t].pc = "idle"
    /\ th' = Set(t, InIoctl(t, "map_dma", a, fd, MapRequest(a)))
    /\ UNCHANGED <<fd, users, owned, lock, alive, fdtab, opens, closes>>

map_dma_return(t) ==
    /\ th[t].pc = "ioctl"
    /\ th[t].op = "map_dma"
    /\ \E k \in Ioctl(th[t].fd) :
         th' = Set(t, Returned([th[t] EXCEPT
                   !.k = k, !.ret = RetOrErrno(k.ret, Diagnostics(k.errno))]))
    /\ UNCHANGED <<fd, users, owned, lock, alive, fdtab, opens, closes>>

(***************************************************************************)
(* iommufd_backend_copy_dma                                                *)
(***************************************************************************)
\* Mutant: the two address-space ids in each other's field.
CopyRequest_Swapped(a) ==
    [size |-> "iommu_ioas_copy", flags |-> MapFlags(a.readonly),
     dst_ioas_id |-> a.src_ioas, src_ioas_id |-> a.dst_ioas,
     length |-> a.size, dst_iova |-> a.iova, src_iova |-> a.iova]

\* struct iommu_ioas_copy copy = { ... }
CopyRequest(a) ==
    [size |-> "iommu_ioas_copy", flags |-> MapFlags(a.readonly),
     dst_ioas_id |-> a.dst_ioas, src_ioas_id |-> a.src_ioas,
     length |-> a.size, dst_iova |-> a.iova, src_iova |-> a.iova]

copy_dma_ioctl(t, a) ==
    /\ alive
    /\ th[t].pc = "idle"
    /\ th' = Set(t, InIoctl(t, "copy_dma", a, fd, CopyRequest(a)))
    /\ UNCHANGED <<fd, users, owned, lock, alive, fdtab, opens, closes>>

copy_dma_return(t) ==
    /\ th[t].pc = "ioctl"
    /\ th[t].op = "copy_dma"
    /\ \E k \in Ioctl(th[t].fd) :
         th' = Set(t, Returned([th[t] EXCEPT
                   !.k = k, !.ret = RetOrErrno(k.ret, Diagnostics(k.errno))]))
    /\ UNCHANGED <<fd, users, owned, lock, alive, fdtab, opens, closes>>

(***************************************************************************)
(* iommufd_backend_free_id, iommufd_backend_put_ioas                       *)
(***************************************************************************)
\* struct iommu_destroy des = { .size, .id = id }
DestroyRequest(a) ==
    [size |-> "iommu_destroy", id |-> a.id]

\* iommufd_backend_free_id(f, a.id) up to its ioctl.
free_id_ioctl(t, f, a) ==
    /\ alive
    /\ th[t].pc = "idle"
    /\ th' = Set(t, InIoctl(t, "free_id", a, f, DestroyRequest(a)))
    /\ UNCHANGED <<fd, users, owned, lock, alive, fdtab, opens, closes>>

\* iommufd_backend_put_ioas(be, a.id): iommufd_backend_free_id(be->fd, ioas)
put_ioas_ioctl(t, a) ==
    /\ alive
    /\ th[t].pc = "idle"
    /\ th' = Set(t, InIoctl(t, "put_ioas", a, fd, DestroyRequest(a)))
    /\ UNCHANGED <<fd, users, owned, lock, alive, fdtab, opens, closes>>

\* Mutant: a free_id that hands the failure of the destroy to its caller.
free_id_return_Propagate(t) ==
    /\ th[t].pc = "ioctl"
    /\ th[t].op \in {"free_id", "put_ioas"}
    /\ \E k \in Ioctl(th[t].fd) :
         th' = Set(t, Returned([th[t] EXCEPT
                   !.k = k, !.ret = RetOrErrno(k.ret, Diagnostics(k.errno))]))
    /\ UNCHANGED <<fd, users, owned, lock, alive, fdtab, opens, closes>>

\* The ioctl is answered; a failure is only reported with error_report, and
\* the function, which is void, returns.
free_id_return(t) ==
    /\ th[t].pc = "ioctl"
    /\ th[t].op \in {"free_id", "put_ioas"}
    /\ \E k \in Ioctl(th[t].fd) :
         th' = Set(t, Returned([th[t] EXCEPT !.k = k]))
    /\ UNCHANGED <<fd, users, owned, lock, alive, fdtab, opens, closes>>

(***************************************************************************)
(* The wrappers that fill an output of the caller when the ioctl succeeds. *)
(***************************************************************************)
\* Mutant: the output stored whatever the ioctl returned.
Stored_Always(k, prior, answered) ==
    answered

\* if (ret) error_report(...); else *out = request.out;
\* prior is what the caller's variable holds before the call, answered the
\* request's output field after the ioctl.
Stored(k, prior, answered) ==
    IF k.ret # 0 THEN prior ELSE answered

(***************************************************************************)
(* iommufd_backend_alloc_hwpt                                              *)
(***************************************************************************)
AllocHwptRequest(a) ==
    [size |-> "iommu_alloc_hwpt", flags |-> a.flags, dev_id |-> a.dev_id,
     hwpt_type |-> a.hwpt_type, parent_id |-> a.parent,
     data_type |-> a.data_type, data_len |-> a.data_len, reserved |-> 0,
     data_uptr |-> ToU64(a.data), out_hwpt_id |-> 0]

\* a.out is what the caller's *out_hwpt holds before the call.
alloc_hwpt_ioctl(t, f, a) ==
    /\ alive
    /\ th[t].pc = "idle"
    /\ th' = Set(t, [InIoctl(t, "alloc_hwpt", a, f, AllocHwptRequest(a))
                       EXCEPT !.out = a.out])
    /\ UNCHANGED <<fd, users, owned, lock, alive, fdtab, opens, closes>>

alloc_hwpt_return(t) ==
    /\ th[t].pc = "ioctl"
    /\ th[t].op = "alloc_hwpt"
    /\ \E k \in Ioctl(th[t].fd) :
         LET answered == IF k.ret = 0 THEN k.out ELSE th[t].req.out_hwpt_id
         IN  th' = Set(t, Returned([th[t] EXCEPT
                   !.k = k,
                   !.req = [th[t].req EXCEPT !.out_hwpt_id = answered],
                   !.out = Stored(k, th[t].out, answered),
                   !.ret = RetOrErrno(k.ret, Diagnostics(k.errno))]))
    /\ UNCHANGED <<fd, users, owned, lock, alive, fdtab, opens, closes>>

(***************************************************************************)
(* iommufd_backend_add_hwpt_event                                          *)
(***************************************************************************)
AddHwptEventRequest(a) ==
    [size |-> "iommu_add_hwpt_event", flags |-> 0,
     type |-> "IOMMU_HWPT_EVENT_FAULT", dev_id |-> a.dev_id,
     hwpt_id |-> a.hwpt, eventfd |-> a.eventfd, out_fd |-> 0]

\* a.out is what the caller's *out_fd holds before the call.
add_hwpt_event_ioctl(t, f, a) ==
    /\ alive
    /\ th[t].pc = "idle"
    /\ th' = Set(t, [InIoctl(t, "add_hwpt_event", a, f, AddHwptEventRequest(a))
                       EXCEPT !.out = a.out])
    /\ UNCHANGED <<fd, users, owned, lock, alive, fdtab, opens, closes>>

add_hwpt_event_return(t) ==
    /\ th[t].pc = "ioctl"
    /\ th[t].op = "add_hwpt_event"
    /\ \E k \in Ioctl(th[t].fd) :
         LET answered == IF k.ret = 0 THEN k.out ELSE th[t].req.out_fd
         IN  th' = Set(t, Returned([th[t] EXCEPT
                   !.k = k,
                   !.req = [th[t].req EXCEPT !.out_fd = answered],
                   !.out = Stored(k, th[t].out, answered),
                   !.ret = RetOrErrno(k.ret, Diagnostics(k.errno))]))
    /\ UNCHANGED <<fd, users, owned, lock, alive, fdtab, opens, closes>>

(***************************************************************************)
(* iommufd_backend_alloc_pasid, iommufd_backend_free_pasid                 *)
(***************************************************************************)
IOMMU_ALLOC_PASID_IDENTICAL == 1

\* Mutant: the request's pasid left at 0 instead of the caller's value.
AllocPasidRequest_Zero(a) ==
    [size |-> "iommu_alloc_pasid",
     flags |-> IF a.identical THEN IOMMU_ALLOC_PASID_IDENTICAL ELSE 0,
     min |-> a.min, max |-> a.max, pasid |-> 0]

\* uint32_t upasid = *pasid; struct iommu_alloc_pasid alloc = { ... }
AllocPasidRequest(a) ==
    [size |-> "iommu_alloc_pasid",
     flags |-> IF a.identical THEN IOMMU_ALLOC_PASID_IDENTICAL ELSE 0,
     min |-> a.min, max |-> a.max, pasid |-> a.out]

\* a.out is what the caller's *pasid holds before the call.
alloc_pasid_ioctl(t, f, a) ==
    /\ alive
    /\ th[t].pc = "idle"
    /\ th' = Set(t, [InIoctl(t, "alloc_pasid", a, f, AllocPasidRequest(a))
                       EXCEPT !.out = a.out])
    /\ UNCHANGED <<fd, users, owned, lock, alive, fdtab, opens, closes>>

alloc_pasid_return(t) ==
    /\ th[t].pc = "ioctl"
    /\ th[t].op = "alloc_pasid"
    /\ \E k \in Ioctl(th[t].fd) :
         LET answered == IF k.ret = 0 THEN k.out ELSE th[t].req.pasid
         IN  th' = Set(t, Returned([th[t] EXCEPT
                   !.k = k,
                   !.req = [th[t].req EXCEPT !.pasid = answered],
                   !.out = Stored(k, th[t].out, answered),
                   !.ret = RetOrErrno(k.ret, Diagnostics(k.errno))]))
    /\ UNCHANGED <<fd, users, owned, lock, alive, fdtab, opens, closes>>

FreePasidRequest(a) ==
    [size |-> "iommu_free_pasid", flags |-> 0, pasid |-> a.pasid]

free_pasid_ioctl(t, f, a) ==
    /\ alive
    /\ th[t].pc = "idle"
    /\ th' = Set(t, InIoctl(t, "free_pasid", a, f, FreePasidRequest(a)))
    /\ UNCHANGED <<fd, users, owned, lock, alive, fdtab, opens, closes>>

free_pasid_return(t) ==
    /\ th[t].pc = "ioctl"
    /\ th[t].op = "free_pasid"
    /\ \E k \in Ioctl(th[t].fd) :
         th' = Set(t, Returned([th[t] EXCEPT
                   !.k = k, !.ret = RetOrErrno(k.ret, Diagnostics(k.errno))]))
    /\ UNCHANGED <<fd, users, owned, lock, alive, fdtab, opens, closes>>

(***************************************************************************)
(* iommufd_backend_invalidate_cache, iommufd_backend_page_response         *)
(***************************************************************************)
\* a.info is the value of *info.
InvalidateRequest(a) ==
    [size |-> "iommu_hwpt_invalidate_s1_cache", flags |-> 0,
     hwpt_id |-> a.hwpt_id, info |-> a.info]

invalidate_cache_ioctl(t, f, a) ==
    /\ alive
    /\ th[t].pc = "idle"
    /\ th' = Set(t, InIoctl(t, "invalidate_cache", a, f, InvalidateRequest(a)))
    /\ UNCHANGED <<fd, users, owned, lock, alive, fdtab, opens, closes>>

invalidate_cache_return(t) ==
    /\ th[t].pc = "ioctl"
    /\ th[t].op = "invalidate_cache"
    /\ \E k \in Ioctl(th[t].fd) :
         th' = Set(t, Returned([th[t] EXCEPT
                   !.k = k, !.ret = RetOrErrno(k.ret, Diagnostics(k.errno))]))
    /\ UNCHANGED <<fd, users, owned, lock, alive, fdtab, opens, closes>>

\* a.resp is the value of *resp.
PageResponseRequest(a) ==
    [size |-> "iommu_hwpt_page_response", flags |-> 0, hwpt_id |-> a.hwpt_id,
     dev_id |-> a.dev_id, resp |-> a.resp]

page_response_ioctl(t, f, a) ==
    /\ alive
    /\ th[t].pc = "idle"
    /\ th' = Set(t, InIoctl(t, "page_response", a, f, PageResponseRequest(a)))
    /\ UNCHANGED <<fd, users, owned, lock, alive, fdtab, opens, closes>>

page_response_return(t) ==
    /\ th[t].pc = "ioctl"
    /\ th[t].op = "page_response"
    /\ \E k \in Ioctl(th[t].fd) :
         th' = Set(t, Returned([th[t] EXCEPT
                   !.k = k, !.ret = RetOrErrno(k.ret, Diagnostics(k.errno))]))
    /\ UNCHANGED <<fd, users, owned, lock, alive, fdtab, opens, closes>>

(***************************************************************************)
(* Any thread calls set_fd, connect and disconnect in any order, and the   *)
(* object is finalized at any quiescent moment.                            *)
(***************************************************************************)
Next ==
    \/ \E t \in Callers : iommufd_backend_connect(t)
    \/ \E t \in Callers : iommufd_backend_disconnect(t)
    \/ \E t \in Callers : iommufd_backend_set_fd(t)
    \/ iommufd_backend_finalize

Spec == Init /\ [][Next]_vars


(***************************************************************************)
(* Properties of the handle protocol (specification Spec).                 *)
(***************************************************************************)
\* A connect call of t that has done its work and is about to unlock.
ConnectAtOut(t) ==
    th[t].op = "connect" /\ th[t].pc = "c_out"

\* C2: a connect that finds users at its maximum returns -E2BIG with the
\* "too many connections" error, opens nothing and leaves fd, users and owned
\* as it found them; a connect that returns 0 leaves users one higher than it
\* found it, so users never wraps around to 0.
C2_SaturatedConnect ==
    \A t \in Threads :
      /\ (ConnectAtOut(t) /\ th[t].pre[2] = UINT32_MAX) =>
            /\ th[t].ret = -E2BIG
            /\ th[t].err = "too many connections"
            /\ ~th[t].opened
            /\ Fields = th[t].pre
      /\ (ConnectAtOut(t) /\ th[t].ret = 0) => users = th[t].pre[2] + 1

C2_Witness ==
    \E t \in Threads :
      /\ ConnectAtOut(t)
      /\ th[t].pre[2] = UINT32_MAX
      /\ th[t].ret = -E2BIG
      /\ users = UINT32_MAX

\* C3: once owned is false it stays false, and from then on no step opens or
\* closes a descriptor, be->fd is a descriptor of the external supplier that
\* is still open, and no thread is at the open of connect or at the close of
\* disconnect; finalize leaves the descriptor as it is.
C3_BorrowedNeverClosed ==
    /\ [](~owned =>
            /\ fd \in ExtFds
            /\ fdtab[fd] = "ext"
            /\ \A t \in Threads : th[t].pc \notin {"c_open", "d_close"})
    /\ [][~owned => (~owned' /\ fdtab' = fdtab)]_vars

C3_Witness ==
    /\ ~owned
    /\ fdtab[fd] = "ext"
    /\ users = 0
    /\ \E t \in Threads :
         /\ th[t].op = "disconnect"
         /\ th[t].pc = "d_out"
         /\ th[t].pre = <<fd, 1, FALSE>>

\* C4: while the object lives, users > 0 implies that be->fd is set and names
\* a descriptor that is open.
C4_DescriptorValidWhileUsed ==
    (alive /\ users > 0) => (fd \in Fds /\ fdtab[fd] # "free")

C4_Witness ==
    /\ alive
    /\ users > 1
    /\ ~owned
    /\ fdtab[fd] = "ext"
    /\ \E f \in Fds : fdtab[f] = "core"

\* C5: a connect on a self-owned handle with users = 0 whose open fails
\* returns a negative value with the "/dev/iommu opening failed" error and
\* leaves users at 0 and fd at -1; every connect that finds the handle in
\* that state attempts the open, and one whose open succeeds leaves
\* users = 1 and be->fd at the descriptor it opened.
C5_OpenFailed ==
    \A t \in Threads :
      /\ (th[t].op = "connect" /\ th[t].err = "/dev/iommu opening failed") =>
            th[t].ret < 0
      /\ (ConnectAtOut(t) /\ th[t].err = "/dev/iommu opening failed") =>
            /\ th[t].errno \in OpenErrnos
            /\ ~th[t].opened
            /\ Fields = th[t].pre
            /\ users = 0
            /\ fd = -1
      /\ (ConnectAtOut(t) /\ th[t].pre = <<-1, 0, TRUE>>) =>
            \/ th[t].err = "/dev/iommu opening failed"
            \/ /\ th[t].opened
               /\ th[t].ret = 0
               /\ users = 1
               /\ fd = th[t].fd
               /\ fdtab[fd] = "core"

\* One thread's connect has failed at the open, and a later connect of
\* another thread has opened the device.
C5_Witness ==
    \E t, u \in Threads :
      /\ th[t].op = "connect"
      /\ th[t].pc = "idle"
      /\ th[t].err = "/dev/iommu opening failed"
      /\ ConnectAtOut(u)
      /\ th[u].opened
      /\ users = 1

\* C6: a disconnect that finds users = 0 leaves fd, users and owned as it
\* found them and issues no close.
C6_DisconnectAtZero ==
    \A t \in Threads :
      (th[t].op = "disconnect" /\ th[t].pre[2] = 0
          /\ th[t].pc \in {"d_close", "d_out"}) =>
        /\ th[t].pc = "d_out"
        /\ Fields = th[t].pre
        /\ users = 0
        /\ ~th[t].closed

C6_Witness ==
    \E t \in Threads :
      /\ th[t].op = "disconnect"
      /\ th[t].pc = "d_out"
      /\ th[t].pre[2] = 0
      /\ th[t].pre[1] # -1


(***************************************************************************)
(* N threads each call connect once, concurrently; once every connect has  *)
(* returned, each calls disconnect once, concurrently.  No set_fd, and     *)
(* every open succeeds.                                                    *)
(***************************************************************************)
\* The threads that take part: N of them, for an N chosen initially.
Participants ==
    {t \in Threads : th[t].op # "absent"}

InitC1 ==
    /\ iommufd_backend_init
    /\ alive = TRUE
    /\ fdtab = [f \in Fds |-> IF f \in ExtFds THEN "ext" ELSE "free"]
    /\ opens = 0
    /\ closes = 0
    /\ \E n \in 1 .. NThreads :
         th = [t \in Threads |->
                 IF t <= n THEN IdleThread ELSE [IdleThread EXCEPT !.op = "absent"]]

\* Every participant's connect has returned.
ConnectsDone ==
    \A u \in Participants :
      \/ th[u].op = "connect" /\ th[u].pc = "idle"
      \/ th[u].op = "disconnect"

\* Every participant's disconnect has returned.
DisconnectsDone ==
    \A u \in Participants : th[u].op = "disconnect" /\ th[u].pc = "idle"

NextC1 ==
    \E t \in Threads :
      \/ th[t].op = "none" /\ connect_lock(t)
      \/ connect_check(t)
      \/ connect_open_ok(t)
      \/ connect_inc(t)
      \/ connect_unlock(t)
      \/ th[t].op = "connect" /\ ConnectsDone /\ disconnect_lock(t)
      \/ disconnect_check(t)
      \/ disconnect_close(t)
      \/ disconnect_unlock(t)

SpecC1 == InitC1 /\ [][NextC1]_vars

\* C1: in N concurrent connects followed by N disconnects on a self-owned
\* handle, /dev/iommu is never opened or closed a second time, it has been
\* opened exactly once when the connects have returned, it has been opened
\* exactly once and closed exactly once when the disconnects have returned,
\* and whenever users > 0 be->fd is the open descriptor of the device.
C1_OpenedOnceClosedOnce ==
    /\ opens <= 1
    /\ closes <= 1
    /\ users > 0 => (fd \in Fds /\ fdtab[fd] = "core")
    /\ (\E f \in Fds : fdtab[f] = "core") <=> (opens = 1 /\ closes = 0)
    /\ ConnectsDone => opens = 1
    /\ DisconnectsDone => (opens = 1 /\ closes = 1 /\ users = 0)

C1_Witness ==
    /\ DisconnectsDone
    /\ Participants = Threads
    /\ NThreads > 1
    /\ opens = 1
    /\ closes = 1


(***************************************************************************)
(* Consumers that bracket their use of the descriptor: a consumer maps     *)
(* only between a connect of its own that returned 0 and its matching      *)
(* disconnect.  The handle is self-owned: there is no set_fd.              *)
(***************************************************************************)
\* The arguments the consumers map with.
BracketArgs ==
    [ioas : {1}, iova : {5}, size : {8}, vaddr : {3}, readonly : BOOLEAN]

NextBracket ==
    \E t \in Callers :
      \/ ~th[t].conn /\ connect_lock(t)
      \/ connect_check(t)
      \/ connect_open_ok(t)
      \/ connect_open_fail(t)
      \/ connect_inc(t)
      \/ connect_unlock(t)
      \/ th[t].conn /\ \E a \in BracketArgs : map_dma_ioctl(t, a)
      \/ map_dma_return(t)
      \/ th[t].conn /\ disconnect_lock(t)
      \/ disconnect_check(t)
      \/ disconnect_close(t)
      \/ disconnect_unlock(t)

SpecBracket == Init /\ [][NextBracket]_vars

\* C7: when every consumer brackets its operations, a request that is in
\* flight was issued on be->fd as it still is, that descriptor is set and
\* open, and users > 0; and no answered request was refused with EBADF.
C7_NoCloseUnderOperation ==
    \A t \in Threads :
      /\ th[t].pc = "ioctl" =>
            /\ th[t].fd \in Fds
            /\ fdtab[th[t].fd] = "core"
            /\ th[t].fd = fd
            /\ users > 0
      /\ (th[t].op = "map_dma" /\ th[t].pc = "idle") => th[t].k.errno # 9

\* One consumer's request is in flight while another consumer's disconnect
\* has run to its unlock.
C7_Witness ==
    \E t, u \in Threads :
      /\ th[t].pc = "ioctl"
      /\ th[u].op = "disconnect"
      /\ th[u].pc = "d_out"
      /\ fdtab[th[t].fd] = "core"

(***************************************************************************)
(* One thread calls the wrappers with arguments of its choice, connected   *)
(* or not.                                                                 *)
(***************************************************************************)
OpCallers == {1}
GetIoasArgs == [ioas_id : {0, 3}]
UnmapArgs == [ioas : {1, 2}, iova : {0, 5}, size : {0, 8}]
MapArgs ==
    [ioas : {1, 2}, iova : {0, 5}, size : {0, 8},
     vaddr : {3, 2 ^ WordBits - 4}, readonly : BOOLEAN]
CopyArgs ==
    [src_ioas : {1, 2}, dst_ioas : {1, 2}, iova : {0, 5}, size : {0, 8},
     readonly : BOOLEAN]

DestroyArgs == [id : {1, 2}]
AllocHwptArgs ==
    [flags : {0}, dev_id : {1, 2}, hwpt_type : {0, 1}, parent : {1},
     data_type : {0}, data : {3}, data_len : {0}, out : {0, 3}]
AddHwptEventArgs == [dev_id : {1, 2}, hwpt : {1}, eventfd : {4}, out : {-1, 3}]
AllocPasidArgs == [min : {1}, max : {2}, identical : BOOLEAN, out : {0, 3}]
FreePasidArgs == [pasid : {1, 2}]
InvalidateArgs == [hwpt_id : {1, 2}, info : {6}]
PageResponseArgs == [hwpt_id : {1}, dev_id : {1, 2}, resp : {6}]

NextOps ==
    \E t \in OpCallers :
      \/ iommufd_backend_connect(t)
      \/ iommufd_backend_disconnect(t)
      \/ \E a \in GetIoasArgs : get_ioas_ioctl(t, a)
      \/ get_ioas_return(t)
      \/ \E a \in UnmapArgs : unmap_dma_ioctl(t, a)
      \/ unmap_dma_return(t)
      \/ \E a \in MapArgs : map_dma_ioctl(t, a)
      \/ map_dma_return(t)
      \/ \E a \in CopyArgs : copy_dma_ioctl(t, a)
      \/ copy_dma_return(t)
      \/ \E a \in DestroyArgs : free_id_ioctl(t, fd, a)
      \/ \E a \in DestroyArgs : put_ioas_ioctl(t, a)
      \/ free_id_return(t)
      \/ \E a \in AllocHwptArgs : alloc_hwpt_ioctl(t, fd, a)
      \/ alloc_hwpt_return(t)
      \/ \E a \in AddHwptEventArgs : add_hwpt_event_ioctl(t, fd, a)
      \/ add_hwpt_event_return(t)
      \/ \E a \in AllocPasidArgs : alloc_pasid_ioctl(t, fd, a)
      \/ alloc_pasid_return(t)
      \/ \E a \in FreePasidArgs : free_pasid_ioctl(t, fd, a)
      \/ free_pasid_return(t)
      \/ \E a \in InvalidateArgs : invalidate_cache_ioctl(t, fd, a)
      \/ invalidate_cache_return(t)
      \/ \E a \in PageResponseArgs : page_response_ioctl(t, fd, a)
      \/ page_response_return(t)

SpecOps == Init /\ [][NextOps]_vars

\* C8: the request of every map call has the readable and the fixed-IOVA
\* flag, has the writable flag exactly when readonly is false, and carries
\* the ioas id, iova, size and host pointer of the call.
C8_MapRequest ==
    \A t \in Threads :
      th[t].op = "map_dma" =>
        LET r == th[t].req
            a == th[t].args
        IN  /\ HasFlag(r.flags, IOMMU_IOAS_MAP_READABLE)
            /\ HasFlag(r.flags, IOMMU_IOAS_MAP_FIXED_IOVA)
            /\ HasFlag(r.flags, IOMMU_IOAS_MAP_WRITEABLE) <=> ~a.readonly
            /\ r.ioas_id = a.ioas
            /\ r.iova = a.iova
            /\ r.length = a.size
            /\ r.user_va = a.vaddr

\* A readonly map of size 0 at an odd iova, of a pointer with its top bit set.
C8_Witness ==
    \E t \in Threads :
      /\ th[t].op = "map_dma"
      /\ th[t].pc = "ioctl"
      /\ th[t].args.readonly
      /\ th[t].args.size = 0
      /\ th[t].args.iova % 2 = 1
      /\ th[t].args.vaddr >= 2 ^ (WordBits - 1)
      /\ th[t].req.flags = 5

\* C9: map, unmap and copy return 0 exactly when the ioctl returned 0, and
\* otherwise the negation of the errno the ioctl set, which is negative.
C9_NegatedErrno ==
    \A t \in Threads :
      (th[t].op \in {"map_dma", "unmap_dma", "copy_dma"} /\ th[t].pc = "idle") =>
        /\ th[t].ret = 0 <=> th[t].k.ret = 0
        /\ th[t].k.ret # 0 => (th[t].ret = -th[t].k.errno /\ th[t].ret < 0)

C9_Witness ==
    \E t \in Threads :
      /\ th[t].op = "copy_dma"
      /\ th[t].pc = "idle"
      /\ th[t].k.ret = -1
      /\ th[t].k.errno = 12
      /\ th[t].ret = -12

\* C10: when the allocation request fails, get_ioas returns a value other
\* than 0 and the caller's *ioas_id holds what it held before the call.
C10_FailedAllocKeepsId ==
    \A t \in Threads :
      (th[t].op = "get_ioas" /\ th[t].pc = "idle" /\ th[t].k.ret # 0) =>
        /\ th[t].ret # 0
        /\ th[t].out = th[t].args.ioas_id

(***************************************************************************)
(* The allocating wrappers on a handle that was never connected.           *)
(***************************************************************************)
AllocOps == {"get_ioas", "alloc_hwpt", "add_hwpt_event", "alloc_pasid"}

\* No connect has opened the device and no descriptor was given with set_fd:
\* be->fd has been -1 ever since iommufd_backend_init.
NeverConnected ==
    opens = 0 /\ owned /\ fd = -1

\* C11: an allocating wrapper called on a handle that was never connected
\* is refused by the kernel with EBADF and returns a negative value, never
\* 0; get_ioas leaves 0 in the caller's *ioas_id, which is no id the kernel
\* hands out, and the three others leave the caller's output as it was.
C11_UnsetDescriptorFails ==
    \A t \in Threads :
      (th[t].op \in AllocOps /\ th[t].pc = "idle" /\ NeverConnected) =>
        /\ th[t].k = [ret |-> -1, errno |-> 9, out |-> 0]
        /\ th[t].ret < 0
        /\ th[t].out \notin NewIds
        /\ th[t].op = "get_ioas" => th[t].out = 0
        /\ th[t].op # "get_ioas" => th[t].out = th[t].args.out

C11_Witness ==
    \E t \in Threads :
      /\ NeverConnected
      /\ th[t].op = "alloc_hwpt"
      /\ th[t].pc = "idle"
      /\ th[t].args.out = 3
      /\ th[t].out = 3
      /\ th[t].ret = -9

(***************************************************************************)
(* free_id and put_ioas                                                    *)
(***************************************************************************)
FreeOps == {"free_id", "put_ioas"}

\* C12: a call of free_id or put_ioas carries one IOMMU_DESTROY request for
\* the id it was given; while it is in the ioctl no earlier request of the
\* call has been answered, and once the request is answered the call is
\* over, with no error value for the caller whether the request succeeded
\* or failed; no step of the call changes be->fd, be->users, be->owned or
\* the descriptors that are open.
C12_FreeIdOneRequest ==
    /\ [](\A t \in Threads :
            th[t].op \in FreeOps =>
              /\ th[t].pc \in {"ioctl", "idle"}
              /\ th[t].req = [size |-> "iommu_destroy", id |-> th[t].args.id]
              /\ th[t].pc = "ioctl" => th[t].k = Nil
              /\ th[t].pc = "idle" =>
                   (th[t].k # Nil /\ th[t].ret = 0 /\ th[t].err = ""))
    /\ [][\A t \in Threads :
            (th'[t].op \in FreeOps /\ th'[t] # th[t]) =>
              (Fields' = Fields /\ fdtab' = fdtab)]_vars

C12_Witness ==
    \E t \in Threads :
      /\ th[t].op = "put_ioas"
      /\ th[t].pc = "idle"
      /\ users > 0
      /\ th[t].args.id = 2
      /\ th[t].k.ret = -1
      /\ th[t].k.errno = 22
      /\ th[t].ret = 0

\* C13: a set_fd whose descriptor was resolved stores that descriptor in
\* be->fd and makes be->owned false, with be->users as it was when the lock
\* was taken; a set_fd whose descriptor could not be resolved reports an
\* error, never reaches the lock, and leaves be->fd, be->users, be->owned
\* and the open descriptors as they were.
C13_SetFd ==
    /\ [](\A t \in Threads :
            th[t].op = "set_fd" =>
              /\ th[t].err # "" => (th[t].pc = "idle" /\ th[t].fd = -1)
              /\ th[t].pc \in {"s_lock", "s_set", "s_out"} =>
                   (th[t].err = "" /\ th[t].fd \in ExtFds)
              /\ th[t].pc = "s_out" =>
                   (fd = th[t].fd /\ ~owned /\ users = th[t].pre[2]))
    /\ [][\A t \in Threads :
            (th'[t].op = "set_fd" /\ th'[t].err # "" /\ th'[t] # th[t]) =>
              (Fields' = Fields /\ fdtab' = fdtab)]_vars

C13_Witness ==
    \E t, u \in Threads :
      /\ th[t].op = "set_fd"
      /\ th[t].pc = "s_out"
      /\ th[t].pre = <<4, 1, TRUE>>
      /\ Fields = <<3, 1, FALSE>>
      /\ th[u].op = "set_fd"
      /\ th[u].pc = "idle"
      /\ th[u].err # ""

(***************************************************************************)
(* One thread calls the wrappers, at any time, while the other callers     *)
(* connect and disconnect.                                                 *)
(***************************************************************************)
\* One argument list of S.
One(S) == {CHOOSE a \in S : TRUE}

NextShared ==
    \/ \E u \in Callers \ OpCallers :
         \/ iommufd_backend_connect(u)
         \/ iommufd_backend_disconnect(u)
    \/ \E t \in OpCallers :
         \/ \E a \in One(GetIoasArgs) : get_ioas_ioctl(t, a)
         \/ get_ioas_return(t)
         \/ \E a \in One(DestroyArgs) : put_ioas_ioctl(t, a)
         \/ \E a \in One(DestroyArgs) : free_id_ioctl(t, fd, a)
         \/ free_id_return(t)
         \/ \E a \in One(MapArgs) : map_dma_ioctl(t, a)
         \/ map_dma_return(t)
         \/ \E a \in One(UnmapArgs) : unmap_dma_ioctl(t, a)
         \/ unmap_dma_return(t)
         \/ \E a \in One(CopyArgs) : copy_dma_ioctl(t, a)
         \/ copy_dma_return(t)
         \/ \E a \in One(AllocHwptArgs) : alloc_hwpt_ioctl(t, fd, a)
         \/ alloc_hwpt_return(t)
         \/ \E a \in One(AddHwptEventArgs) : add_hwpt_event_ioctl(t, fd, a)
         \/ add_hwpt_event_return(t)
         \/ \E a \in One(AllocPasidArgs) : alloc_pasid_ioctl(t, fd, a)
         \/ alloc_pasid_return(t)
         \/ \E a \in One(FreePasidArgs) : free_pasid_ioctl(t, fd, a)
         \/ free_pasid_return(t)
         \/ \E a \in One(InvalidateArgs) : invalidate_cache_ioctl(t, fd, a)
         \/ invalidate_cache_return(t)
         \/ \E a \in One(PageResponseArgs) : page_response_ioctl(t, fd, a)
         \/ page_response_return(t)

SpecShared == Init /\ [][NextShared]_vars

\* Where a thread is between qemu_mutex_lock and qemu_mutex_unlock.
CriticalPcs ==
    {"c_check", "c_open", "c_inc", "c_out", "d_check", "d_close", "d_out",
     "s_set", "s_out"}

\* C14: a thread that is in the ioctl of a wrapper does not hold be->lock;
\* the lock is held exactly by a thread that is between the lock and the
\* unlock of connect, disconnect or set_fd; and while a wrapper's request is
\* in flight and no such thread holds the lock, every idle thread can enter
\* connect and disconnect.
C14_NoLockAcrossIoctl ==
    /\ \A t \in Threads : th[t].pc = "ioctl" => lock # t
    /\ \A t \in Threads : lock = t <=> th[t].pc \in CriticalPcs
    /\ \A t, u \in Threads :
         (th[t].pc = "ioctl" /\ th[u].pc = "idle" /\ lock = NoThread) =>
           (ENABLED connect_lock(u) /\ ENABLED disconnect_lock(u))

\* A disconnect of one thread closes while the request of another is in
\* flight.
C14_Witness ==
    \E t, u \in Threads :
      /\ th[t].pc = "ioctl"
      /\ th[t].op = "map_dma"
      /\ th[t].fd = fd
      /\ th[u].pc = "d_close"
      /\ lock = u

(***************************************************************************)
(* The wrappers that return a status.                                      *)
(***************************************************************************)
StatusOps ==
    {"get_ioas", "map_dma", "unmap_dma", "copy_dma", "alloc_hwpt",
     "add_hwpt_event", "alloc_pasid", "free_pasid", "invalidate_cache",
     "page_response"}

\* C15: every wrapper that returns a status returns 0 exactly when its ioctl
\* returned 0, and otherwise the negation of the errno the ioctl set.
C15_UniformStatus ==
    \A t \in Threads :
      (th[t].op \in StatusOps /\ th[t].pc = "idle") =>
        /\ th[t].ret = 0 <=> th[t].k.ret = 0
        /\ th[t].k.ret # 0 => th[t].ret = -th[t].k.errno

\* C16: the request of every copy call has the iova of the call as its
\* source and as its destination iova, the source id in src_ioas_id and the
\* destination id in dst_ioas_id, the size of the call as its length, the
\* readable and the fixed-IOVA flag, and the writable flag exactly when
\* readonly is false: the flags a map with the same readonly has.
C16_CopyRequest ==
    \A t \in Threads :
      th[t].op = "copy_dma" =>
        LET r == th[t].req
            a == th[t].args
        IN  /\ r.src_iova = a.iova
            /\ r.dst_iova = a.iova
            /\ r.src_ioas_id = a.src_ioas
            /\ r.dst_ioas_id = a.dst_ioas
            /\ r.length = a.size
            /\ HasFlag(r.flags, IOMMU_IOAS_MAP_READABLE)
            /\ HasFlag(r.flags, IOMMU_IOAS_MAP_FIXED_IOVA)
            /\ HasFlag(r.flags, IOMMU_IOAS_MAP_WRITEABLE) <=> ~a.readonly
            /\ \A m \in MapArgs :
                 m.readonly = a.readonly => MapRequest(m).flags = r.flags

\* A writable copy between two different address spaces.
C16_Witness ==
    \E t \in Threads :
      /\ th[t].op = "copy_dma"
      /\ th[t].pc = "ioctl"
      /\ th[t].args.src_ioas = 1
      /\ th[t].args.dst_ioas = 2
      /\ ~th[t].args.readonly
      /\ th[t].args.iova = 5
      /\ th[t].req.flags = 7

\* C17: the request of alloc_pasid carries what the caller's *pasid held
\* before the call, with the range and the identical flag of the call; when
\* the ioctl succeeds *pasid, *out_hwpt of alloc_hwpt and *out_fd of
\* add_hwpt_event hold the value the kernel stored in the request, and when
\* it fails they hold what they held before the call.
C17_OutputsOnSuccessOnly ==
    \A t \in Threads :
      /\ (th[t].op = "alloc_pasid" /\ th[t].pc = "ioctl") =>
           /\ th[t].req.pasid = th[t].args.out
           /\ th[t].req.min = th[t].args.min
           /\ th[t].req.max = th[t].args.max
           /\ th[t].req.flags = IOMMU_ALLOC_PASID_IDENTICAL
                <=> th[t].args.identical
      /\ (th[t].op \in {"alloc_pasid", "alloc_hwpt", "add_hwpt_event"}
            /\ th[t].pc = "idle") =>
           /\ th[t].k.ret = 0 => th[t].out = th[t].k.out
           /\ th[t].k.ret # 0 => th[t].out = th[t].args.out

\* An alloc_pasid prefilled with 3 got pasid 1 from the kernel.
C17_Witness ==
    \E t \in Threads :
      /\ th[t].op = "alloc_pasid"
      /\ th[t].pc = "idle"
      /\ th[t].args.out = 3
      /\ th[t].k.ret = 0
      /\ th[t].k.out = 1
      /\ th[t].out = 1
      /\ th[t].ret = 0

(***************************************************************************)
(* The self-owned handle: no set_fd has assigned a descriptor.             *)
(***************************************************************************)
\* The descriptors the core has opened and not closed.
CoreOpen == {f \in Fds : fdtab[f] = "core"}

\* C18: while the handle is self-owned and not destroyed, whenever no
\* thread is between the lock and the unlock of connect, disconnect or
\* set_fd, be->fd is set exactly when users > 0; the only descriptor the
\* core has open is be->fd, so the device is never opened while it is open;
\* opens and closes alternate, beginning with an open; and a connect that
\* returns 0 has opened the device exactly when it found users at 0.
C18_SelfOwnedLifecycle ==
    (owned /\ alive) =>
      /\ (\A t \in Threads : th[t].pc \notin CriticalPcs) =>
           (fd # -1 <=> users > 0)
      /\ CoreOpen = IF fd = -1 THEN {} ELSE {fd}
      /\ opens < MaxCount =>
           /\ closes <= opens
           /\ opens <= closes + 1
           /\ opens = closes + 1 <=> fd # -1
      /\ \A t \in Threads :
           (ConnectAtOut(t) /\ th[t].ret = 0) =>
             (th[t].opened <=> th[t].pre[2] = 0)

\* The device is open for the second time, after a last disconnect closed
\* it, and a second connect has joined without opening.
C18_Witness ==
    /\ owned
    /\ alive
    /\ \A t \in Threads : th[t].pc \notin CriticalPcs
    /\ opens >= 2
    /\ closes >= 1
    /\ fd # -1
    /\ users = 2

\* C19: the core never closes more often than it opened, and once the
\* handle is destroyed no descriptor that connect opened is still open:
\* each was closed once, by the last disconnect or by finalize.
C19_OpenedClosedOnce ==
    /\ opens < MaxCount => closes <= opens
    /\ ~alive =>
         /\ CoreOpen = {}
         /\ opens < MaxCount => closes = opens

=============================================================================
